---- MODULE Spec2Model ----
(***************************************************************************)
(* Model of Dome1.py: screen capture, template matching, the retrying      *)
(* button locator (find_button), the pointer actuator (click_position),    *)
(* the composite auto_click, and the scripted main_workflow run from       *)
(* __main__.                                                               *)
(*                                                                         *)
(* Durations are in tenths of a second, scores and thresholds in           *)
(* hundredths (0.7 is 70).                                                 *)
(*                                                                         *)
(* Spec      one auto_click call whose arguments are drawn in Init         *)
(* SpecMain  the process: __main__ running main_workflow                   *)
(***************************************************************************)
EXTENDS Integers, Sequences, FiniteSets

\* ---------------------------------------------------------------- bounds
MaxAttempts == 3
MaxClicks == 2
ScreenW == 3
ScreenH == 2

\* ------------------------------------------------------ program constants
DefaultMaxAttempts == 3
DefaultClickTimes == 1
DefaultSuccessDelay == 10
DefaultInterval == 10
DefaultThreshold == 70
MatcherThreshold == 60
MoveDuration == 3
ClickInterval == 2
InitialWait == 10
JobWait == 30

\* ------------------------------------------------------------ value sets
None == <<>>
NoExc == ""
KeyboardInterrupt == "KeyboardInterrupt"

\* variant: a bare "except:" that also catches KeyboardInterrupt
IsException_BareExcept(e) == e # NoExc

\* "except Exception" catches every exception class except the
\* BaseException-only ones (KeyboardInterrupt).
IsException(e) == e \in {"CaptureError", "ImageNotFoundError", "cv2.error", "ActuationFault"}

\* truth value of an Optional[Tuple[int, int]]: None and () are false
Truthy(p) == Len(p) > 0

AttemptCounts == -1 .. MaxAttempts
ClickCounts == 0 .. MaxClicks
Intervals == {0, DefaultInterval}
SuccessDelays == {0, DefaultSuccessDelay}
Thresholds == {MatcherThreshold, DefaultThreshold}
Scores == {0, MatcherThreshold - 1, MatcherThreshold, DefaultThreshold - 1, DefaultThreshold, 100}

\* what cv2.imread finds at a template path: no image, or a w x h image
NoImage == [exists |-> FALSE, w |-> 0, h |-> 0]
TemplateShapes == {<<1, 1>>, <<2, 2>>, <<ScreenW + 1, 1>>}
TemplateFiles == {NoImage} \cup {[exists |-> TRUE, w |-> s[1], h |-> s[2]] : s \in TemplateShapes}

\* offsets of the result matrix of cv2.matchTemplate
MatchLocs(t) == {<<x, y>> : x \in 0 .. (ScreenW - t.w), y \in 0 .. (ScreenH - t.h)}

Return(v, inner) == [kind |-> "return", val |-> v, exc |-> NoExc, inner |-> inner]
Raise(e) == [kind |-> "raise", val |-> None, exc |-> e, inner |-> NoExc]

\* what the vision stage hands to a find_template call: the exception it
\* raises (NoExc when none) and the output of cv2.minMaxLoc
Matcher(f, v, l) == [fault |-> f, max_val |-> v, max_loc |-> l]
NoMatcher == Matcher(NoExc, 0, <<0, 0>>)

\* one entry of the call history
Event(op, n, v, p, e, inner) == [op |-> op, n |-> n, v |-> v, pos |-> p, exc |-> e, inner |-> inner]

VARIABLES pc, template_path, template, max_attempts, click_times, success_delay,
          interval, threshold, attempt, screenshot, position, clicked, ret, exc,
          log, step, attempted, proc, tested, matcher

args == <<template_path, template, max_attempts, click_times, success_delay, interval, threshold>>
wf == <<step, attempted, proc, tested>>
vars == <<pc, template_path, template, max_attempts, click_times, success_delay,
          interval, threshold, attempt, screenshot, position, clicked, ret, exc,
          log, step, attempted, proc, tested, matcher>>

\* ------------------------------------------------------------ find_template
\* variant: "if max_val <= threshold" rejects a score equal to the threshold
find_template_body_StrictAbove(tmpl, fault, max_val, max_loc, thr) ==
  IF fault = KeyboardInterrupt THEN Raise(KeyboardInterrupt)
  ELSE IF ~tmpl.exists THEN Raise("ImageNotFoundError")
  ELSE IF fault # NoExc THEN Raise(fault)
  ELSE IF tmpl.w > ScreenW \/ tmpl.h > ScreenH THEN Raise("cv2.error")
  ELSE IF max_val <= thr THEN Return(None, NoExc)
  ELSE Return(<<max_loc[1] + (tmpl.w \div 2), max_loc[2] + (tmpl.h \div 2)>>, NoExc)

\* variant: "template_w, template_h = template.shape" (rows taken for the width)
find_template_body_SwappedShape(tmpl, fault, max_val, max_loc, thr) ==
  IF fault = KeyboardInterrupt THEN Raise(KeyboardInterrupt)
  ELSE IF ~tmpl.exists THEN Raise("ImageNotFoundError")
  ELSE IF fault # NoExc THEN Raise(fault)
  ELSE IF tmpl.w > ScreenW \/ tmpl.h > ScreenH THEN Raise("cv2.error")
  ELSE IF max_val < thr THEN Return(None, NoExc)
  ELSE Return(<<max_loc[1] + (tmpl.h \div 2), max_loc[2] + (tmpl.w \div 2)>>, NoExc)

\* variant: the bottom-right corner in place of the centre
find_template_body_Corner(tmpl, fault, max_val, max_loc, thr) ==
  IF fault = KeyboardInterrupt THEN Raise(KeyboardInterrupt)
  ELSE IF ~tmpl.exists THEN Raise("ImageNotFoundError")
  ELSE IF fault # NoExc THEN Raise(fault)
  ELSE IF tmpl.w > ScreenW \/ tmpl.h > ScreenH THEN Raise("cv2.error")
  ELSE IF max_val < thr THEN Return(None, NoExc)
  ELSE Return(<<max_loc[1] + tmpl.w, max_loc[2] + tmpl.h>>, NoExc)

\* the try block of find_template; fault is what the vision stage raises
\* (NoExc when nothing), max_val / max_loc what cv2.minMaxLoc reports
find_template_body(tmpl, fault, max_val, max_loc, thr) ==
  IF fault = KeyboardInterrupt THEN Raise(KeyboardInterrupt)
  ELSE IF ~tmpl.exists THEN Raise("ImageNotFoundError")
  ELSE IF fault # NoExc THEN Raise(fault)
  ELSE IF tmpl.w > ScreenW \/ tmpl.h > ScreenH THEN Raise("cv2.error")
  ELSE IF max_val < thr THEN Return(None, NoExc)
  ELSE Return(<<max_loc[1] + (tmpl.w \div 2), max_loc[2] + (tmpl.h \div 2)>>, NoExc)

\* variant: find_template without its except clause
find_template_except_Propagate(r) == r

\* the except clause of find_template
find_template_except(r) ==
  IF r.kind = "raise" /\ IsException(r.exc) THEN Return(None, r.exc) ELSE r

find_template(tmpl, fault, max_val, max_loc, thr) ==
  find_template_except(find_template_body(tmpl, fault, max_val, max_loc, thr))

\* -------------------------------------------------------------- find_button
\* variant: range(1, max_attempts)
InRange_OffByOne(a, max) == 1 <= a /\ a < max

\* variant: a loop that always makes its first attempt
InRange_AtLeastOnce(a, max) == a = 1 \/ (1 <= a /\ a <= max)

\* for attempt in range(1, max_attempts + 1): is a a value of the range
InRange(a, max) == 1 <= a /\ a <= max

\* variant: "continue" in place of "break"
find_button_except_Continue(e, att, max) ==
  IF e # KeyboardInterrupt
  THEN (IF att < max
        THEN [pc |-> "fb_capture", attempt |-> att + 1, exc |-> NoExc]
        ELSE [pc |-> "fb_return", attempt |-> att, exc |-> NoExc])
  ELSE [pc |-> "raised", attempt |-> att, exc |-> e]

\* variant: find_button without its try/except
find_button_except_Propagate(e, att, max) == [pc |-> "raised", attempt |-> att, exc |-> e]

\* the except clause of find_button: break, then fall to "return None"
find_button_except(e, att, max) ==
  IF IsException(e)
  THEN [pc |-> "fb_return", attempt |-> att, exc |-> NoExc]
  ELSE [pc |-> "raised", attempt |-> att, exc |-> e]

\* variant: the match is only returned after the loop has run out
find_button_after_match_NoEarlyReturn(pos, att, max) ==
  IF att < max THEN [pc |-> "fb_sleep", attempt |-> att, position |-> pos]
  ELSE [pc |-> "fb_return", attempt |-> att, position |-> pos]

\* variant: "if attempt <= max_attempts" guards the sleep
find_button_after_match_SleepAfterLast(pos, att, max) ==
  IF Len(pos) > 0 THEN [pc |-> "fb_return", attempt |-> att, position |-> pos]
  ELSE IF att <= max THEN [pc |-> "fb_sleep", attempt |-> att, position |-> pos]
  ELSE [pc |-> "fb_return", attempt |-> att, position |-> None]

\* after find_template returned pos on attempt att
find_button_after_match(pos, att, max) ==
  IF Truthy(pos) THEN [pc |-> "fb_return", attempt |-> att, position |-> pos]
  ELSE IF att < max THEN [pc |-> "fb_sleep", attempt |-> att, position |-> pos]
  ELSE IF InRange(att + 1, max) THEN [pc |-> "fb_capture", attempt |-> att + 1, position |-> pos]
  ELSE [pc |-> "fb_return", attempt |-> att, position |-> None]

NewShot == Cardinality({i \in DOMAIN log : log[i].op = "capture"}) + 1

\* auto_click calls find_button, which enters its for loop
find_button_enter ==
  /\ pc = "ac_call"
  /\ IF InRange(1, max_attempts)
     THEN /\ attempt' = 1
          /\ pc' = "fb_capture"
     ELSE /\ attempt' = attempt
          /\ pc' = "fb_return"
  /\ position' = None
  /\ UNCHANGED <<args, screenshot, clicked, ret, exc, log, wf, matcher>>

\* screenshot = capture_screen() inside the try of find_button
capture_screen ==
  /\ pc = "fb_capture"
  /\ \E e \in {NoExc, "CaptureError", KeyboardInterrupt} :
       IF e = NoExc
       THEN /\ screenshot' = NewShot
            /\ log' = Append(log, Event("capture", attempt, NewShot, None, NoExc, NoExc))
            /\ pc' = "fb_match"
            /\ UNCHANGED <<attempt, position, exc>>
       ELSE LET h == find_button_except(e, attempt, max_attempts) IN
            /\ log' = Append(log, Event("capture", attempt, 0, None, e, NoExc))
            /\ pc' = h.pc
            /\ attempt' = h.attempt
            /\ exc' = h.exc
            /\ position' = None
            /\ UNCHANGED screenshot
  /\ UNCHANGED <<args, clicked, ret, wf, matcher>>

\* position = find_template(screenshot, template_path, threshold), then
\* the "if position" and "if attempt < max_attempts" tests
match_template ==
  /\ pc = "fb_match"
  /\ \E fault \in {NoExc, "cv2.error", KeyboardInterrupt}, max_val \in Scores,
        max_loc \in (IF MatchLocs(template) = {} THEN {<<0, 0>>} ELSE MatchLocs(template)) :
       LET r == find_template(template, fault, max_val, max_loc, threshold) IN
       IF r.kind = "return"
       THEN LET a == find_button_after_match(r.val, attempt, max_attempts) IN
            /\ log' = Append(log, Event("match", attempt, screenshot, r.val, NoExc, r.inner))
            /\ pc' = a.pc
            /\ attempt' = a.attempt
            /\ position' = a.position
            /\ UNCHANGED exc
       ELSE LET h == find_button_except(r.exc, attempt, max_attempts) IN
            /\ log' = Append(log, Event("match", attempt, screenshot, None, r.exc, NoExc))
            /\ pc' = h.pc
            /\ attempt' = h.attempt
            /\ exc' = h.exc
            /\ position' = None
  /\ UNCHANGED <<args, screenshot, clicked, ret, wf, matcher>>

\* time.sleep(interval) after a failed attempt, then the next iteration
retry_sleep ==
  /\ pc = "fb_sleep"
  /\ \E e \in {NoExc, KeyboardInterrupt} :
       /\ log' = Append(log, Event("sleep", attempt, interval, None, e, NoExc))
       /\ IF e = NoExc
          THEN /\ IF InRange(attempt + 1, max_attempts)
                  THEN /\ attempt' = attempt + 1
                       /\ pc' = "fb_capture"
                  ELSE /\ attempt' = attempt
                       /\ pc' = "fb_return"
               /\ UNCHANGED exc
          ELSE LET h == find_button_except(e, attempt, max_attempts) IN
               /\ pc' = h.pc
               /\ attempt' = h.attempt
               /\ exc' = h.exc
  /\ position' = None
  /\ UNCHANGED <<args, screenshot, clicked, ret, wf, matcher>>

\* --------------------------------------------------------------- auto_click
\* variant: auto_click without the "if not position" test
auto_click_after_find_AlwaysClick(pos) == [pc |-> "cp_move", ret |-> "running"]

\* find_button returned position to auto_click: "if not position"
auto_click_after_find(pos) ==
  IF ~Truthy(pos) THEN [pc |-> "ac_return", ret |-> "False"]
  ELSE [pc |-> "cp_move", ret |-> "running"]

find_button_return ==
  /\ pc = "fb_return"
  /\ LET a == auto_click_after_find(position) IN
       /\ pc' = a.pc
       /\ ret' = a.ret
  /\ clicked' = 0
  /\ UNCHANGED <<args, attempt, screenshot, position, exc, log, wf, matcher>>

\* ----------------------------------------------------------- click_position
\* variant: click_position without its except clause
click_position_except_Propagate(e) == [pc |-> "raised", exc |-> e]

\* variant: a click failure that makes auto_click return at once
click_position_except_ReturnEarly(e) ==
  IF e # KeyboardInterrupt
  THEN [pc |-> "ac_return", exc |-> NoExc]
  ELSE [pc |-> "raised", exc |-> e]

\* variant: the except clause inside the click loop, which then goes on
click_position_except_KeepClicking(e) ==
  IF e # KeyboardInterrupt
  THEN [pc |-> "cp_click", exc |-> NoExc]
  ELSE [pc |-> "raised", exc |-> e]

\* the except clause of click_position: log, fall off the end (return None)
click_position_except(e) ==
  IF IsException(e)
  THEN [pc |-> "ac_settle", exc |-> NoExc]
  ELSE [pc |-> "raised", exc |-> e]

\* variant: range(clicks + 1)
MoreClicks_OneExtra(done, clicks) == done <= clicks

\* for _ in range(clicks): is there an iteration after done iterations
MoreClicks(done, clicks) == done < clicks

\* x, y = position; pyautogui.moveTo(x, y, duration=move_duration)
moveTo ==
  /\ pc = "cp_move"
  /\ \E e \in {NoExc, "ActuationFault", KeyboardInterrupt} :
       /\ log' = Append(log, Event("moveTo", 0, MoveDuration, position, e, NoExc))
       /\ IF e = NoExc
          THEN /\ pc' = IF MoreClicks(0, click_times) THEN "cp_click" ELSE "ac_settle"
               /\ UNCHANGED exc
          ELSE LET h == click_position_except(e) IN
               /\ pc' = h.pc
               /\ exc' = h.exc
  /\ UNCHANGED <<args, attempt, screenshot, position, clicked, ret, wf, matcher>>

\* variant: the click loop without its time.sleep(interval)
click_NoPause ==
  /\ pc = "cp_click"
  /\ \E e \in {NoExc, "ActuationFault", KeyboardInterrupt} :
       /\ log' = Append(log, Event("click", clicked + 1, 0, position, e, NoExc))
       /\ IF e = NoExc
          THEN /\ clicked' = clicked + 1
               /\ pc' = IF clicked + 1 < click_times THEN "cp_click" ELSE "ac_settle"
               /\ UNCHANGED exc
          ELSE /\ clicked' = clicked
               /\ pc' = IF e = KeyboardInterrupt THEN "raised" ELSE "ac_settle"
               /\ exc' = IF e = KeyboardInterrupt THEN e ELSE NoExc
  /\ UNCHANGED <<args, attempt, screenshot, position, ret, wf, matcher>>

\* pyautogui.click()
click ==
  /\ pc = "cp_click"
  /\ \E e \in {NoExc, "ActuationFault", KeyboardInterrupt} :
       /\ log' = Append(log, Event("click", clicked + 1, 0, position, e, NoExc))
       /\ IF e = NoExc
          THEN /\ pc' = "cp_pause"
               /\ UNCHANGED exc
          ELSE LET h == click_position_except(e) IN
               /\ pc' = h.pc
               /\ exc' = h.exc
  /\ UNCHANGED <<args, attempt, screenshot, position, clicked, ret, wf, matcher>>

\* time.sleep(interval) after each click, then the next iteration
click_pause ==
  /\ pc = "cp_pause"
  /\ \E e \in {NoExc, KeyboardInterrupt} :
       /\ log' = Append(log, Event("pause", clicked + 1, ClickInterval, None, e, NoExc))
       /\ IF e = NoExc
          THEN /\ clicked' = clicked + 1
               /\ pc' = IF MoreClicks(clicked + 1, click_times) THEN "cp_click" ELSE "ac_settle"
               /\ UNCHANGED exc
          ELSE LET h == click_position_except(e) IN
               /\ clicked' = clicked
               /\ pc' = h.pc
               /\ exc' = h.exc
  /\ UNCHANGED <<args, attempt, screenshot, position, ret, wf, matcher>>

\* variant: auto_click returning True without time.sleep(success_delay)
settle_sleep_Skipped ==
  /\ pc = "ac_settle"
  /\ pc' = "ac_return"
  /\ ret' = "True"
  /\ UNCHANGED <<args, attempt, screenshot, position, clicked, exc, log, wf, matcher>>

\* time.sleep(success_delay); return True
settle_sleep ==
  /\ pc = "ac_settle"
  /\ \E e \in {NoExc, KeyboardInterrupt} :
       /\ log' = Append(log, Event("settle", 0, success_delay, None, e, NoExc))
       /\ IF e = NoExc
          THEN /\ pc' = "ac_return"
               /\ ret' = "True"
               /\ UNCHANGED exc
          ELSE /\ pc' = "raised"
               /\ exc' = e
               /\ UNCHANGED ret
  /\ UNCHANGED <<args, attempt, screenshot, position, clicked, wf, matcher>>

\* ------------------------------------------------------- one auto_click call
Init ==
  /\ pc = "ac_call"
  /\ template_path = "template.png"
  /\ template \in TemplateFiles
  /\ max_attempts \in AttemptCounts
  /\ click_times \in ClickCounts
  /\ success_delay \in SuccessDelays
  /\ interval \in Intervals
  /\ threshold \in Thresholds
  /\ attempt = 0
  /\ screenshot = 0
  /\ position = None
  /\ clicked = 0
  /\ ret = "running"
  /\ exc = NoExc
  /\ log = <<>>
  /\ step = 0
  /\ attempted = {}
  /\ proc = "call"
  /\ tested = {}
  /\ matcher = NoMatcher

Next ==
  \/ find_button_enter
  \/ capture_screen
  \/ match_template
  \/ retry_sleep
  \/ find_button_return
  \/ moveTo
  \/ click
  \/ click_pause
  \/ settle_sleep

Spec == Init /\ [][Next]_vars

\* ------------------------------------------------------------ main_workflow
\* the statements of main_workflow in order; kind tells how the return
\* value of auto_click is used and which entry follows
Plain(name) == [kind |-> "plain", tpl |-> name]
Workflow ==
  << Plain("template_path/ActivityFee.png"),
     Plain("template_path/Close.png"),
     [kind |-> "primary", tpl |-> "template_path/Work.png"],
     [kind |-> "alternate", tpl |-> "template_path/Work-1.png"],
     [kind |-> "job_select", tpl |-> "template_path/SelectJob1.png"],
     Plain("template_path/Select.png"),
     Plain("template_path/Decision2.png"),
     Plain("template_path/Start.png"),
     [kind |-> "sleep", tpl |-> ""],
     [kind |-> "job_select", tpl |-> "template_path/SelectJob2.png"],
     Plain("template_path/Select.png"),
     Plain("template_path/Decision2.png"),
     Plain("template_path/Start.png"),
     Plain("template_path/Home.png"),
     Plain("template_path/Shop.png"),
     Plain("template_path/DailyExchangeOffice.png"),
     Plain("template_path/Recommendation.png"),
     Plain("template_path/Decision.png"),
     Plain("template_path/AP.png"),
     Plain("template_path/PtUp.png"),
     Plain("template_path/Decision.png"),
     Plain("template_path/NoteUp.png"),
     Plain("template_path/Decision.png"),
     Plain("template_path/TryAgainTicket.png"),
     Plain("template_path/Decision.png"),
     Plain("template_path/RegenerationTicket.png"),
     Plain("template_path/Decision.png"),
     Plain("template_path/Home.png"),
     Plain("template_path/Idol.png"),
     Plain("template_path/SupportCard.png"),
     Plain("template_path/Sort.png"),
     Plain("template_path/Lv1.png"),
     Plain("template_path/Detailed.png"),
     Plain("template_path/LvStrengthen.png"),
     Plain("template_path/LvStrengthen.png"),
     Plain("template_path/Home.png"),
     Plain("template_path/Mission.png"),
     Plain("template_path/Lump-sumCollection.png"),
     Plain("template_path/Close.png"),
     Plain("template_path/X.png"),
     Plain("template_path/Home.png"),
     Plain("template_path/Present.png"),
     Plain("template_path/Lump-sumCollection.png"),
     Plain("template_path/Close.png"),
     Plain("template_path/Home.png") >>

\* the three auto_click calls of job_flow that follow its first one
JobFlowRest == 3

\* the return value of entry s is tested by an "if not auto_click(...)"
Tested(s) == Workflow[s].kind \in {"primary", "job_select"}

\* variant: main_workflow ignoring every return value
NextStep_NoBranch(s, r) == s + 1

\* the entry executed after entry s, whose auto_click returned r
NextStep(s, r) ==
  IF Workflow[s].kind = "primary" THEN (IF r = "True" THEN s + 2 ELSE s + 1)
  ELSE IF Workflow[s].kind = "job_select" THEN (IF r = "True" THEN s + 1 ELSE s + 1 + JobFlowRest)
  ELSE s + 1

\* auto_click(Workflow[t].tpl) with every other argument defaulted
CallAutoClick(t) ==
  /\ pc' = "ac_call"
  /\ step' = t
  /\ attempted' = attempted \cup {t}
  /\ template_path' = Workflow[t].tpl
  /\ template' \in TemplateFiles
  /\ max_attempts' = DefaultMaxAttempts
  /\ click_times' = DefaultClickTimes
  /\ success_delay' = DefaultSuccessDelay
  /\ interval' = DefaultInterval
  /\ threshold' = DefaultThreshold
  /\ attempt' = 0
  /\ screenshot' = 0
  /\ position' = None
  /\ clicked' = 0
  /\ ret' = "running"
  /\ log' = <<>>

\* control reaches entry t of main_workflow
Goto(t) ==
  IF t > Len(Workflow)
  THEN /\ pc' = "exit"
       /\ proc' = "completed"
       /\ UNCHANGED <<args, attempt, screenshot, position, clicked, ret, exc, log, step, attempted, matcher>>
  ELSE IF Workflow[t].kind = "sleep"
  THEN /\ pc' = "wf_sleep"
       /\ step' = t
       /\ UNCHANGED <<args, attempt, screenshot, position, clicked, ret, exc, log, attempted, proc, matcher>>
  ELSE /\ CallAutoClick(t)
       /\ UNCHANGED <<exc, proc, matcher>>

\* a time.sleep of main_workflow itself
WorkflowSleep(dur, t) ==
  \E e \in {NoExc, KeyboardInterrupt} :
    IF e = NoExc
    THEN Goto(t) /\ UNCHANGED tested
    ELSE /\ pc' = "raised"
         /\ exc' = e
         /\ log' = Append(log, Event("wf_sleep", 0, dur, None, e, NoExc))
         /\ UNCHANGED <<args, attempt, screenshot, position, clicked, ret, wf, matcher>>

\* __main__ calls main_workflow: time.sleep(1), then the first auto_click
main_workflow_enter ==
  /\ pc = "main"
  /\ WorkflowSleep(InitialWait, 1)

\* auto_click returned to main_workflow
workflow_next ==
  /\ pc = "ac_return"
  /\ tested' = IF Tested(step) THEN tested \cup {<<step, ret>>} ELSE tested
  /\ Goto(NextStep(step, ret))

\* time.sleep(3) between job_flow(1) and job_flow(2)
workflow_sleep ==
  /\ pc = "wf_sleep"
  /\ WorkflowSleep(JobWait, step + 1)

\* the except clauses of __main__
main_except ==
  /\ pc = "raised"
  /\ pc' = "exit"
  /\ proc' = IF exc = KeyboardInterrupt THEN "interrupted" ELSE "crashed"
  /\ UNCHANGED <<args, attempt, screenshot, position, clicked, ret, exc, log, step, attempted, tested, matcher>>

InitMain ==
  /\ pc = "main"
  /\ template_path = ""
  /\ template = NoImage
  /\ max_attempts = DefaultMaxAttempts
  /\ click_times = DefaultClickTimes
  /\ success_delay = DefaultSuccessDelay
  /\ interval = DefaultInterval
  /\ threshold = DefaultThreshold
  /\ attempt = 0
  /\ screenshot = 0
  /\ position = None
  /\ clicked = 0
  /\ ret = "running"
  /\ exc = NoExc
  /\ log = <<>>
  /\ step = 0
  /\ attempted = {}
  /\ proc = "running"
  /\ tested = {}
  /\ matcher = NoMatcher

NextMain ==
  \/ main_workflow_enter
  \/ workflow_next
  \/ workflow_sleep
  \/ main_except
  \/ find_button_enter
  \/ capture_screen
  \/ match_template
  \/ retry_sleep
  \/ find_button_return
  \/ moveTo
  \/ click
  \/ click_pause
  \/ settle_sleep

SpecMain == InitMain /\ [][NextMain]_vars

\* the process keeps running: every blocking call (capture, match, sleep,
\* move, click) comes back, with a result or an exception
SpecMainFair == SpecMain /\ WF_vars(NextMain)

\* ------------------------------------------------- one find_template call
\* templates of every shape up to one pixel larger than the screen
MatchTemplateFiles ==
  {NoImage} \cup {[exists |-> TRUE, w |-> w, h |-> h] : w \in 1 .. ScreenW + 1, h \in 1 .. ScreenH + 1}

\* what the vision stage can hand to find_template for template t
MatcherOutputs(t) ==
  {Matcher(f, v, l) : f \in {NoExc, "cv2.error", KeyboardInterrupt}, v \in Scores,
                      l \in (IF MatchLocs(t) = {} THEN {<<0, 0>>} ELSE MatchLocs(t))}

\* find_template(screenshot, template_path, threshold) called on its own
find_template_call ==
  /\ pc = "ft_call"
  /\ LET r == find_template(template, matcher.fault, matcher.max_val, matcher.max_loc, threshold) IN
       /\ position' = r.val
       /\ exc' = r.exc
       /\ pc' = IF r.kind = "return" THEN "ft_return" ELSE "raised"
       /\ log' = Append(log, Event("match", 0, 0, r.val, r.exc, r.inner))
  /\ UNCHANGED <<args, attempt, screenshot, clicked, ret, wf, matcher>>

InitMatch ==
  /\ pc = "ft_call"
  /\ template_path = "template.png"
  /\ template \in MatchTemplateFiles
  /\ threshold \in Thresholds
  /\ matcher \in MatcherOutputs(template)
  /\ max_attempts = DefaultMaxAttempts
  /\ click_times = DefaultClickTimes
  /\ success_delay = DefaultSuccessDelay
  /\ interval = DefaultInterval
  /\ attempt = 0
  /\ screenshot = 1
  /\ position = None
  /\ clicked = 0
  /\ ret = "running"
  /\ exc = NoExc
  /\ log = <<>>
  /\ step = 0
  /\ attempted = {}
  /\ proc = "call"
  /\ tested = {}

NextMatch == find_template_call

SpecMatch == InitMatch /\ [][NextMatch]_vars

\* ------------------------------------------------------ history predicates
Idx(op) == {i \in DOMAIN log : log[i].op = op}
OkIdx(op) == {i \in Idx(op) : log[i].exc = NoExc}
LocatorOps == {"capture", "match", "sleep"}

\* find_button has returned to auto_click (or is at its return statement)
Located == pc \in {"fb_return", "cp_move", "cp_click", "cp_pause", "ac_settle", "ac_return"}

\* match event i reported a point
FoundAt(i) == log[i].op = "match" /\ Truthy(log[i].pos)

\* the vision stage raised an internal fault during match event i
MatchFaultAt(i) == log[i].op = "match" /\ "cv2.error" \in {log[i].exc, log[i].inner}

\* the template failed to load during match event i
LoadFailAt(i) == log[i].op = "match" /\ "ImageNotFoundError" \in {log[i].exc, log[i].inner}

\* screen capture i raised a fault other than a user interruption
CaptureFaultAt(i) == log[i].op = "capture" /\ log[i].exc \notin {NoExc, KeyboardInterrupt}

NeverMatched == \A i \in Idx("match") : ~Truthy(log[i].pos)
NoCaptureFault == \A i \in Idx("capture") : log[i].exc = NoExc

\* C1: with max_attempts = N >= 1, no capture fault and no match on any
\* captured screen, find_button returns None after exactly N capture+match
\* cycles; cycle n captures a new buffer and matches on that very buffer.
C1_ExhaustsAfterN ==
  (pc = "fb_return" /\ max_attempts >= 1 /\ NoCaptureFault /\ NeverMatched) =>
    /\ position = None
    /\ Cardinality(Idx("capture")) = max_attempts
    /\ Cardinality(Idx("match")) = max_attempts
    /\ \A n \in 1 .. max_attempts :
         \E i \in Idx("capture"), j \in Idx("match") :
           /\ i < j
           /\ log[i].n = n /\ log[j].n = n
           /\ log[i].v = n /\ log[j].v = log[i].v
           /\ \A k \in Idx("capture") : k > i => k > j

C1_Witness ==
  /\ pc = "fb_return" /\ max_attempts >= 2 /\ NoCaptureFault /\ NeverMatched
  /\ Cardinality(Idx("match")) = max_attempts

\* C2: if the first match is found on attempt k, find_button returns it at
\* once: k captures were made, no capture, match or retry sleep follows the
\* successful match, and the point returned is the one attempt k produced.
C2_ReturnsFirstMatch ==
  \A i \in DOMAIN log : FoundAt(i) =>
    /\ InRange(log[i].n, max_attempts)
    /\ Cardinality(Idx("capture")) = log[i].n
    /\ Cardinality(Idx("match")) = log[i].n
    /\ \A j \in DOMAIN log : j > i => log[j].op \notin LocatorOps
    /\ pc \notin {"fb_capture", "fb_match", "fb_sleep"}
    /\ position = log[i].pos

C2_Witness ==
  /\ pc = "ac_return"
  /\ \E i \in DOMAIN log : FoundAt(i) /\ log[i].n = 2 /\ max_attempts > 2

\* C3: when find_button yields None, auto_click returns False at once: the
\* call contains no pointer move, no click and no settle sleep.
C3_AbsentMeansNoClick ==
  /\ ~Truthy(position) => (Idx("moveTo") \cup Idx("click") \cup Idx("pause") \cup Idx("settle")) = {}
  /\ (pc = "ac_return" /\ ~Truthy(position)) => ret = "False"
  /\ pc \in {"cp_move", "cp_click", "cp_pause", "ac_settle"} => Truthy(position)

C3_Witness ==
  /\ pc = "ac_return" /\ ~Truthy(position) /\ ret = "False"
  /\ Cardinality(Idx("match")) >= 2

C5_CaptureFaultAborts ==
  \A i \in DOMAIN log : CaptureFaultAt(i) =>
    /\ i = Len(log)
    /\ pc \in {"fb_return", "ac_return"}
    /\ position = None
    /\ pc = "ac_return" => ret = "False"

C5_Witness ==
  /\ pc = "ac_return"
  /\ \E i \in DOMAIN log : CaptureFaultAt(i) /\ log[i].n < max_attempts

\* C6: a template that fails to load aborts find_button like a capture
\* fault does: no capture+match cycle follows the failed load and the
\* result is None.
C6_LoadFailureAborts ==
  \A i \in DOMAIN log : LoadFailAt(i) =>
    /\ \A j \in DOMAIN log : j > i => log[j].op \notin LocatorOps
    /\ pc \notin {"fb_capture", "fb_match", "fb_sleep"}
    /\ position = None

\* C7: an internal fault of the matching stage is swallowed by
\* find_template and counted as an ordinary failed attempt: find_button
\* sleeps and retries while attempt < max_attempts and gives up after the
\* last attempt.
C7_MatchFaultIsNotFound ==
  \A i \in DOMAIN log : MatchFaultAt(i) =>
    /\ log[i].exc = NoExc
    /\ log[i].pos = None
    /\ IF log[i].n < max_attempts
       THEN IF i = Len(log)
            THEN pc = "fb_sleep" /\ attempt = log[i].n
            ELSE /\ log[i + 1].op = "sleep"
                 /\ log[i + 1].exc = NoExc =>
                      IF i + 1 = Len(log)
                      THEN pc = "fb_capture" /\ attempt = log[i].n + 1
                      ELSE log[i + 2].op = "capture" /\ log[i + 2].n = log[i].n + 1
       ELSE /\ i = Len(log)
            /\ pc \in {"fb_return", "ac_return"}
            /\ position = None

C7_Witness ==
  /\ pc = "fb_match"
  /\ \E i \in DOMAIN log : MatchFaultAt(i) /\ log[i].n = 1 /\ attempt = 2

\* C8: no capture, template-load, match or actuation fault leaves
\* find_button, click_position or auto_click as an error: after any such
\* fault the call goes on to finish with None / False / True, and the only
\* thing ever raised to the caller is a user interruption.
C8_NoFaultPropagates ==
  /\ exc \in {NoExc, KeyboardInterrupt}
  /\ pc = "raised" => /\ exc = KeyboardInterrupt
                      /\ log # <<>>
                      /\ log[Len(log)].exc = KeyboardInterrupt
  /\ (log # <<>> /\ log[Len(log)].exc \notin {NoExc, KeyboardInterrupt}) =>
       pc \in {"fb_return", "ac_settle", "ac_return"}
  /\ pc = "ac_return" => ret \in {"True", "False"}

C8_Witness ==
  /\ pc = "ac_return" /\ ret = "True"
  /\ \E i \in DOMAIN log : MatchFaultAt(i)
  /\ \E i \in DOMAIN log : log[i].exc = "ActuationFault"

\* C9: a user interruption raised during a capture, match, sleep, move or
\* click is not swallowed: it is the last thing the call does, it reaches
\* __main__, and no workflow step runs after it.
C9_InterruptPropagates ==
  /\ [](\A i \in DOMAIN log : log[i].exc = KeyboardInterrupt =>
          /\ i = Len(log)
          /\ exc = KeyboardInterrupt
          /\ pc \in {"raised", "exit"}
          /\ pc = "exit" => proc = "interrupted")
  /\ [][exc = KeyboardInterrupt =>
          /\ pc' = "exit" /\ proc' = "interrupted"
          /\ step' = step /\ attempted' = attempted /\ log' = log]_vars

C9_Witness ==
  /\ pc = "exit" /\ proc = "interrupted"
  /\ step > 1 /\ step < Len(Workflow)
  /\ \E i \in DOMAIN log : log[i].op = "click" /\ log[i].exc = KeyboardInterrupt

\* C10: inside find_button a sleep of interval happens after each failed
\* attempt n < max_attempts and nowhere else (not after a match, the last
\* attempt or a capture fault), always with the same interval; when the
\* attempts are exhausted there were max_attempts - 1 sleeps.
C10_SleepOnlyBetweenAttempts ==
  /\ \A i \in Idx("sleep") :
       /\ i > 1
       /\ log[i - 1].op = "match" /\ log[i - 1].exc = NoExc
       /\ ~Truthy(log[i - 1].pos)
       /\ log[i].n = log[i - 1].n
       /\ log[i].n < max_attempts
       /\ log[i].v = interval
  /\ \A i \in Idx("match") :
       (log[i].exc = NoExc /\ ~Truthy(log[i].pos) /\ log[i].n < max_attempts) =>
         IF i = Len(log) THEN pc = "fb_sleep" ELSE log[i + 1].op = "sleep"
  /\ (Located /\ max_attempts >= 1 /\ Cardinality(Idx("match")) = max_attempts /\ NeverMatched) =>
       Cardinality(OkIdx("sleep")) = max_attempts - 1

C10_Witness ==
  /\ pc = "fb_return" /\ NeverMatched
  /\ max_attempts >= 3
  /\ Cardinality(OkIdx("sleep")) = max_attempts - 1

\* click_position has returned without any fault or interruption in it
FaultFreeClick ==
  /\ pc \in {"ac_settle", "ac_return"}
  /\ Idx("moveTo") # {}
  /\ \A i \in Idx("moveTo") \cup Idx("click") \cup Idx("pause") : log[i].exc = NoExc

\* C11: in a fault-free click_position call the pointer move to the point
\* comes first, then exactly click_times clicks follow, and click k is
\* followed by a pause of the inter-click delay before click k + 1 (the
\* code also pauses after the last click).
C11_MoveThenSpacedClicks ==
  FaultFreeClick =>
    \E m \in Idx("moveTo") :
      /\ Idx("moveTo") = {m}
      /\ log[m].pos = position
      /\ Cardinality(Idx("click")) = click_times
      /\ Len(log) >= m + 2 * click_times
      /\ \A k \in 1 .. click_times :
           /\ log[m + 2 * k - 1].op = "click" /\ log[m + 2 * k - 1].n = k
           /\ log[m + 2 * k].op = "pause" /\ log[m + 2 * k].n = k
           /\ log[m + 2 * k].v = ClickInterval

C11_Witness ==
  /\ FaultFreeClick /\ pc = "ac_return"
  /\ click_times >= 2
  /\ Cardinality(OkIdx("click")) = click_times

\* the last thing the call did was to sleep the settle delay, undisturbed
SettledLast ==
  /\ log # <<>>
  /\ log[Len(log)].op = "settle"
  /\ log[Len(log)].exc = NoExc
  /\ log[Len(log)].v = success_delay

\* C12: when find_button found a match, auto_click runs find_button, then
\* click_position, then one settle sleep, then returns True: the settle
\* sleep is the last event of the call, after every click, and the next
\* workflow step starts only after it.
C12_SettleBeforeReturn ==
  /\ []((pc = "ac_return" /\ Truthy(position)) =>
          /\ ret = "True"
          /\ SettledLast
          /\ Idx("settle") = {Len(log)}
          /\ \E m \in Idx("moveTo") :
               /\ Idx("moveTo") = {m}
               /\ \A i \in DOMAIN log :
                    /\ log[i].op \in LocatorOps => i < m
                    /\ log[i].op \in {"click", "pause"} => (m < i /\ i < Len(log)))
  /\ [](/\ Cardinality(Idx("settle")) <= 1
        /\ \A i \in Idx("settle") :
             /\ \A j \in DOMAIN log : j > i => log[j].op = "wf_sleep"
             /\ pc \in {"ac_return", "wf_sleep", "raised", "exit"})
  /\ [][(pc' = "ac_call" /\ Truthy(position)) => (pc \in {"ac_return", "wf_sleep"} /\ SettledLast)]_vars

C12_Witness ==
  /\ pc = "ac_return" /\ ret = "True" /\ step >= 2
  /\ OkIdx("click") # {}
  /\ SettledLast

\* the vision stage raised inside the find_template call (a fault handed
\* in, or cv2.matchTemplate refusing a template larger than the screen)
InternalFault ==
  \/ matcher.fault # NoExc
  \/ template.exists /\ (template.w > ScreenW \/ template.h > ScreenH)

FindTemplateDone == pc \in {"ft_return", "raised"}

\* C13: find_template returns a point if and only if the template loaded,
\* no internal fault occurred and max_val >= threshold; a score below the
\* threshold gives None without any error, a score equal to it a point.
C13_PresentIffAtLeastThreshold ==
  FindTemplateDone =>
    /\ Truthy(position) <=>
         (template.exists /\ ~InternalFault /\ matcher.max_val >= threshold)
    /\ (template.exists /\ ~InternalFault /\ matcher.max_val < threshold) =>
         (pc = "ft_return" /\ position = None /\ log[1].inner = NoExc)
    /\ (template.exists /\ ~InternalFault /\ matcher.max_val = threshold) =>
         (pc = "ft_return" /\ Truthy(position))

C13_Witness ==
  /\ pc = "ft_return"
  /\ matcher.max_val = threshold
  /\ Truthy(position)

\* C14: a point returned by find_template is the best offset plus half the
\* template width and half the template height, halves rounded down.
C14_CentreOfBestRectangle ==
  (pc = "ft_return" /\ Truthy(position)) =>
    LET dx == position[1] - matcher.max_loc[1]
        dy == position[2] - matcher.max_loc[2]
    IN  /\ 2 * dx <= template.w /\ template.w < 2 * dx + 2
        /\ 2 * dy <= template.h /\ template.h < 2 * dy + 2

C14_Witness ==
  /\ pc = "ft_return" /\ Truthy(position)
  /\ template.w = 3 /\ template.h = 2
  /\ position = <<matcher.max_loc[1] + 1, matcher.max_loc[2] + 1>>

\* C15: every point returned by find_template lies inside the captured
\* screen: 0 <= x < W and 0 <= y < H, for every template that fits.
C15_PointInsideScreen ==
  (pc = "ft_return" /\ Truthy(position)) =>
    /\ 1 <= template.w /\ template.w <= ScreenW
    /\ 1 <= template.h /\ template.h <= ScreenH
    /\ 0 <= position[1] /\ position[1] < ScreenW
    /\ 0 <= position[2] /\ position[2] < ScreenH

C15_Witness ==
  /\ pc = "ft_return" /\ Truthy(position)
  /\ position = <<ScreenW - 1, ScreenH - 1>>

\* the entries of main_workflow that are auto_click calls outside any "if"
Unconditional ==
  {t \in DOMAIN Workflow :
     /\ Workflow[t].kind \in {"plain", "primary", "job_select"}
     /\ ~\E j \in DOMAIN Workflow :
          Workflow[j].kind = "job_select" /\ j < t /\ t <= j + JobFlowRest}

\* C16: without a user interruption main_workflow always runs to its end,
\* whichever steps fail or fault: the process never ends on an error, and
\* a completed run has attempted every unconditional step.
C16_WorkflowTerminates ==
  /\ <>(pc = "exit")
  /\ [](proc # "crashed")
  /\ []((pc = "exit" /\ exc # KeyboardInterrupt) => proc = "completed")
  /\ [](proc = "completed" => Unconditional \subseteq attempted)
  /\ [][(pc = "ac_return" /\ ret = "False" /\ step < Len(Workflow)) => pc' # "exit"]_vars

C16_Witness ==
  /\ proc = "completed"
  /\ ret = "False"
  /\ \E p \in tested : p[2] = "False"

Kind(k) == {t \in DOMAIN Workflow : Workflow[t].kind = k}

\* C17: the workflow branches on the return value of auto_click only:
\* Work-1 is attempted if and only if the auto_click on Work returned
\* False, and Select, Decision2 and Start of job_flow(j) are attempted if
\* and only if the auto_click on SelectJob<j> returned True.
C17_BranchOnReturnValue ==
  /\ \A s \in Kind("primary") :
       /\ Workflow[s + 1].kind = "alternate"
       /\ (s + 1) \in attempted <=> <<s, "False">> \in tested
  /\ \A s \in Kind("job_select") :
       /\ \A t \in (s + 1) .. (s + JobFlowRest) :
            t \in attempted => (<<s, "True">> \in tested /\ (s + 1) .. t \subseteq attempted)
       /\ <<s, "True">> \in tested => (s + 1) \in attempted
       /\ (<<s, "True">> \in tested /\ step > s + JobFlowRest) =>
            (s + 1) .. (s + JobFlowRest) \subseteq attempted
  /\ \A p \in tested :
       /\ Tested(p[1]) /\ p[1] \in attempted
       /\ p[2] \in {"True", "False"}
       /\ \A q \in tested : q[1] = p[1] => q = p
       /\ (p[1] = step /\ pc = "ac_return") => p[2] = ret

C17_Witness ==
  /\ proc = "completed"
  /\ \E s \in Kind("primary") : <<s, "False">> \in tested /\ (s + 1) \in attempted
  /\ \E s \in Kind("job_select") :
       <<s, "True">> \in tested /\ (s + 1) .. (s + JobFlowRest) \subseteq attempted
  /\ \E s \in Kind("job_select") :
       <<s, "False">> \in tested /\ (s + 1) \notin attempted

\* the pointer move or the click of event i raised an actuation fault
ActuationFaultAt(i) == log[i].op \in {"moveTo", "click"} /\ log[i].exc = "ActuationFault"

C19_FaultEndsClicking ==
  /\ \A i \in DOMAIN log : ActuationFaultAt(i) =>
       /\ \A j \in DOMAIN log : j > i => log[j].op \notin {"moveTo", "click", "pause"}
       /\ log[i].op = "moveTo" => Idx("click") = {}
       /\ log[i].op = "click" => Cardinality(OkIdx("click")) = log[i].n - 1
       /\ pc \notin {"cp_move", "cp_click", "cp_pause"}
  /\ Cardinality(OkIdx("click")) <= click_times
  /\ \A i \in Idx("click") : 1 <= log[i].n /\ log[i].n <= click_times

C19_Witness ==
  /\ pc = "ac_return"
  /\ \E i \in Idx("click") : ActuationFaultAt(i) /\ log[i].n < click_times

\* C20: find_button does not enforce max_attempts >= 1: with
\* max_attempts <= 0 it captures, matches and sleeps zero times and
\* returns None, and auto_click returns False without any capture or
\* pointer action.
C20_NoAttemptWhenNonPositive ==
  max_attempts <= 0 =>
    /\ log = <<>>
    /\ position = None
    /\ attempt = 0 /\ screenshot = 0
    /\ pc \in {"ac_call", "fb_return", "ac_return"}
    /\ pc = "ac_return" => ret = "False"

C20_Witness ==
  /\ max_attempts < 0
  /\ pc = "ac_return" /\ ret = "False"
  /\ log = <<>>

====
